---- MODULE Spec2Model ----
(***************************************************************************)
(* A model of scrape.py, the graduate job scanner: the text heuristics     *)
(* (contains_any, is_uk, extract_years, bucket_job), the three platform    *)
(* adapters (scrape_pinpoint, scrape_greenhouse, scrape_workday) and the   *)
(* orchestrator main.                                                      *)
(*                                                                         *)
(* Text is a sequence of one-character strings, so that lower(), strip(),  *)
(* the substring tests and the regular expressions of extract_years are    *)
(* computed character by character, as Python computes them.  A JSON       *)
(* object is a function from the keys it holds; dict.get is Get.  The      *)
(* columns url and employment_type are copied through unread by every      *)
(* operation modelled here and are left out of postings and rows.          *)
(***************************************************************************)
EXTENDS Integers, Sequences, FiniteSets, TLC

VARIABLES
    employers,   \* main: the list load_employers returned
    i,           \* main: position of the for loop in employers (1-based)
    pc,          \* control point
    jobs,        \* main: the local `jobs`, the last adapter return value
    rows,        \* main: the output collection
    output,      \* the rows written to jobs_output.csv
    log,         \* the lines main printed
    site,        \* scrape_workday: site_url
    offset,      \* scrape_workday: offset
    all_jobs,    \* scrape_workday: all_jobs
    requests,    \* history: the offsets of the POST requests of this call
    response,    \* the HTTP response last received by the running adapter
    outcome,     \* history: per processed employer, what its adapter did
    args,        \* bucket_job: the arguments of the call
    result       \* bucket_job: the value returned

vars == <<employers, i, pc, jobs, rows, output, log, site, offset, all_jobs,
          requests, response, outcome, args, result>>

mainVars == <<employers, i, jobs, rows, output, log, outcome>>
workdayVars == <<site, offset, all_jobs, requests>>
bucketVars == <<args, result>>

(***************************************************************************)
(* Characters and text                                                     *)
(***************************************************************************)

\* The en dash U+2013 of extract_years' first pattern.  It is written "~"
\* here, a character that like it sorts after every letter.
EnDash == "~"

\* The characters used, in code point order.
Alphabet ==
    <<"\t"," ","+",",","-",".","0","1","2","3","4","5","6","7","8","9",
      "A","B","C","D","E","F","G","H","I","J","K","L","M",
      "N","O","P","Q","R","S","T","U","V","W","X","Y","Z",
      "a","b","c","d","e","f","g","h","i","j","k","l","m",
      "n","o","p","q","r","s","t","u","v","w","x","y","z",EnDash>>

Ord == [c \in {Alphabet[k] : k \in 1..Len(Alphabet)} |->
           CHOOSE k \in 1..Len(Alphabet) : Alphabet[k] = c]

UpperCase == {"A","B","C","D","E","F","G","H","I","J","K","L","M",
              "N","O","P","Q","R","S","T","U","V","W","X","Y","Z"}

Digits == <<"0","1","2","3","4","5","6","7","8","9">>

IsDigit(c) == c \in {"0","1","2","3","4","5","6","7","8","9"}

IsSpace(c) == c \in {" ", "\t"}

\* str.lower(), one character
LowerChar(c) == IF c \in UpperCase THEN Alphabet[Ord[c] + Cardinality(UpperCase)] ELSE c

\* str.lower()
Lower(t) == [k \in 1..Len(t) |-> LowerChar(t[k])]

RECURSIVE LStrip(_)
LStrip(t) == IF t # <<>> /\ IsSpace(Head(t)) THEN LStrip(Tail(t)) ELSE t

RECURSIVE RStrip(_)
RStrip(t) ==
    IF t # <<>> /\ IsSpace(t[Len(t)]) THEN RStrip(SubSeq(t, 1, Len(t) - 1)) ELSE t

\* str.strip()
Strip(t) == RStrip(LStrip(t))

\* t[p:].startswith(w), p 1-based
StartsWithAt(t, p, w) ==
    LET at[q \in Nat] ==
          /\ q + Len(w) - 1 <= Len(t)
          /\ \A k \in 1..Len(w) : t[q + k - 1] = w[k]
    IN  at[p]

\* k in t
Contains(t, k) == \E p \in 1..(Len(t) - Len(k) + 1) : StartsWithAt(t, p, k)

\* a < b for Python strings: lexicographic by code point
StrLess(a, b) ==
    \E p \in 1..Len(b) :
       /\ \A q \in 1..(p - 1) : q <= Len(a) /\ a[q] = b[q]
       /\ Len(a) < p \/ (a[p] # b[p] /\ Ord[a[p]] < Ord[b[p]])

\* dict.get(k, default)
Get(d, k, default) == IF k \in DOMAIN d THEN d[k] ELSE default

\* Python truthiness of a string or list
Truthy(v) == v # <<>>

(***************************************************************************)
(* The keyword lists                                                       *)
(***************************************************************************)

UK_HINTS ==
    << <<"g","b">>, <<"u","k">>, <<"u","n","i","t","e","d"," ","k","i","n","g","d","o","m">>,
       <<"l","o","n","d","o","n">>, <<"m","a","n","c","h","e","s","t","e","r">>, <<"b","i","r","m","i","n","g","h","a","m">>, <<"l","e","e","d","s">>, <<"b","r","i","s","t","o","l">>,
       <<"g","l","a","s","g","o","w">>, <<"e","d","i","n","b","u","r","g","h">>, <<"b","e","l","f","a","s","t">>, <<"c","a","m","b","r","i","d","g","e">>, <<"o","x","f","o","r","d">> >>

HIGH_TITLE_KEYWORDS ==
    << <<"g","r","a","d","u","a","t","e">>, <<"j","u","n","i","o","r">>, <<"t","r","a","i","n","e","e">>, <<"a","s","s","i","s","t","a","n","t">>, <<"c","o","o","r","d","i","n","a","t","o","r">>,
       <<"a","d","m","i","n","i","s","t","r","a","t","o","r">>, <<"a","d","m","i","n">>, <<"a","p","p","r","e","n","t","i","c","e">>, <<"i","n","t","e","r","n">>, <<"p","l","a","c","e","m","e","n","t">> >>

LESS_TITLE_KEYWORDS ==
    << <<"a","n","a","l","y","s","t">>, <<"o","f","f","i","c","e","r">>, <<"e","x","e","c","u","t","i","v","e">>, <<"a","s","s","o","c","i","a","t","e">> >>

SENIOR_EXCLUDE_KEYWORDS ==
    << <<"s","e","n","i","o","r">>, <<"s","r">>, <<"l","e","a","d">>, <<"m","a","n","a","g","e","r">>, <<"p","r","i","n","c","i","p","a","l">>, <<"h","e","a","d">>,
       <<"d","i","r","e","c","t","o","r">>, <<"v","p">>, <<"v","i","c","e"," ","p","r","e","s","i","d","e","n","t">>, <<"c","h","i","e","f">>, <<"c","m","o">>, <<"c","t","o">>, <<"c","f","o">>,
       <<"p","r","o","d","u","c","t"," ","o","w","n","e","r">>, <<"p","r","o","d","u","c","t"," ","m","a","n","a","g","e","r">>, <<"p","r","o","g","r","a","m","m","e"," ","m","a","n","a","g","e","r">>,
       <<"p","r","o","g","r","a","m"," ","m","a","n","a","g","e","r">>, <<"c","o","n","s","u","l","t","a","n","t">>, <<"s","p","e","c","i","a","l","i","s","t">>, <<"p","a","r","t","n","e","r">>,
       <<"a","r","c","h","i","t","e","c","t">>,
       <<"s","t","a","f","f">>, <<"i","i">>, <<"i","i","i">>, <<"i","v">> >>

(***************************************************************************)
(* Text heuristics                                                         *)
(***************************************************************************)

contains_any(text, keywords) ==
    LET any[t \in Seq(STRING)] == \E k \in 1..Len(keywords) : Contains(t, keywords[k])
    IN  any[Lower(text)]

is_uk(location) ==
    LET any[loc \in Seq(STRING)] == \E h \in 1..Len(UK_HINTS) : Contains(loc, UK_HINTS[h])
    IN  any[Lower(Strip(location))]

\* The value None of extract_years; a number of years is never negative.
None == -1

\* First position at or after p of t that holds no digit.
DigitsEnd(t, p) ==
    LET end[q \in Nat] == IF q <= Len(t) /\ IsDigit(t[q]) THEN end[q + 1] ELSE q
    IN  end[p]

\* First position at or after p of t that holds no white space: \s*
SpacesEnd(t, p) ==
    LET end[q \in Nat] == IF q <= Len(t) /\ IsSpace(t[q]) THEN end[q + 1] ELSE q
    IN  end[p]

\* \d+(?:\.\d+)? at p: the position after the match, 0 when there is none.
\* Every digit run is followed in the patterns by something no digit
\* matches, so the match is the longest one.
NumberEnd(t, p) ==
    LET frac[e \in Nat] ==
          IF e + 1 <= Len(t) /\ t[e] = "." /\ IsDigit(t[e + 1])
          THEN DigitsEnd(t, e + 1)
          ELSE e
        number[q \in Nat] ==
          IF ~(q <= Len(t) /\ IsDigit(t[q])) THEN 0 ELSE frac[DigitsEnd(t, q)]
    IN  number[p]

DigitValue(c) == (CHOOSE k \in 1..Len(Digits) : Digits[k] = c) - 1

RECURSIVE IntValue(_)
IntValue(ds) ==
    IF ds = <<>> THEN 0
    ELSE 10 * IntValue(SubSeq(ds, 1, Len(ds) - 1)) + DigitValue(ds[Len(ds)])

\* float(t[p:e]) in tenths of a year, further decimals cut off
FloatTenths(t, p, e) ==
    LET tenths[q \in Nat, d \in Nat, f \in Nat] ==
          10 * IntValue(SubSeq(t, q, d - 1))
            + (IF d < f THEN DigitValue(t[d + 1]) ELSE 0)
    IN  tenths[p, DigitsEnd(t, p), e]

\* \s*years? at p
YearsAt(t, p) == StartsWithAt(t, SpacesEnd(t, p), <<"y","e","a","r">>)

\* (\d+(?:\.\d+)?)\s*(?:-|EnDash|to)\s*(\d+(?:\.\d+)?)\s*years?  matched at p
RangeAt(t, p) ==
    LET second[q \in Nat, e1 \in Nat, p2 \in Nat, e2 \in Nat] ==
          IF e2 # 0 /\ YearsAt(t, e2)
          THEN <<FloatTenths(t, q, e1), FloatTenths(t, p2, e2)>>
          ELSE <<>>
        separator[q \in Nat, e1 \in Nat, s \in Nat] ==
          IF StartsWithAt(t, s, <<"-">>) \/ StartsWithAt(t, s, <<EnDash>>)
          THEN second[q, e1, SpacesEnd(t, s + 1), NumberEnd(t, SpacesEnd(t, s + 1))]
          ELSE IF StartsWithAt(t, s, <<"t","o">>)
          THEN second[q, e1, SpacesEnd(t, s + 2), NumberEnd(t, SpacesEnd(t, s + 2))]
          ELSE <<>>
        first[q \in Nat, e1 \in Nat] ==
          IF e1 # 0 THEN separator[q, e1, SpacesEnd(t, e1)] ELSE <<>>
    IN  first[p, NumberEnd(t, p)]

\* up to\s*(\d+(?:\.\d+)?)\s*years?  matched at p
UpToAt(t, p) ==
    LET number[p1 \in Nat, e1 \in Nat] ==
          IF e1 # 0 /\ YearsAt(t, e1) THEN <<0, FloatTenths(t, p1, e1)>> ELSE <<>>
        prefix[q \in Nat] ==
          IF StartsWithAt(t, q, <<"u","p"," ","t","o">>)
          THEN number[SpacesEnd(t, q + 5), NumberEnd(t, SpacesEnd(t, q + 5))]
          ELSE <<>>
    IN  prefix[p]

\* (\d+(?:\.\d+)?)\s*\+\s*years?  matched at p
PlusAt(t, p) ==
    LET plus[q \in Nat, e1 \in Nat, s \in Nat] ==
          IF StartsWithAt(t, s, <<"+">>) /\ YearsAt(t, s + 1)
          THEN <<FloatTenths(t, q, e1), None>>
          ELSE <<>>
        number[q \in Nat, e1 \in Nat] ==
          IF e1 # 0 THEN plus[q, e1, SpacesEnd(t, e1)] ELSE <<>>
    IN  number[p, NumberEnd(t, p)]

\* re.search: the match at the leftmost position that has one
SearchRange(t) ==
    LET hits == {p \in 1..Len(t) : RangeAt(t, p) # <<>>}
    IN  IF hits = {} THEN <<>>
        ELSE RangeAt(t, CHOOSE p \in hits : \A q \in hits : p <= q)

SearchUpTo(t) ==
    LET hits == {p \in 1..Len(t) : UpToAt(t, p) # <<>>}
    IN  IF hits = {} THEN <<>>
        ELSE UpToAt(t, CHOOSE p \in hits : \A q \in hits : p <= q)

SearchPlus(t) ==
    LET hits == {p \in 1..Len(t) : PlusAt(t, p) # <<>>}
    IN  IF hits = {} THEN <<>>
        ELSE PlusAt(t, CHOOSE p \in hits : \A q \in hits : p <= q)

\* (min_years, max_years), in tenths of a year
extract_years(text) ==
    LET pick[range \in Seq(Int), upto \in Seq(Int), plus \in Seq(Int)] ==
          IF range # <<>> THEN range
          ELSE IF upto # <<>> THEN upto
          ELSE IF plus # <<>> THEN plus
          ELSE <<None, None>>
        search[t \in Seq(STRING)] == pick[SearchRange(t), SearchUpTo(t), SearchPlus(t)]
    IN  search[Lower(text)]

\* bucket_job with the senior-title rule and the UK rule in the other order
bucket_job_uk_first(title, location, description_text) ==
    LET title_l == Lower(title)
        y_min   == extract_years(description_text)[1]
    IN  IF ~is_uk(location)
        THEN <<"IGNORE", "Not UK location">>
        ELSE IF contains_any(title_l, SENIOR_EXCLUDE_KEYWORDS)
        THEN <<"EXCLUDE", "Senior keyword in title">>
        ELSE IF y_min # None /\ y_min >= 50
        THEN <<"EXCLUDE", "5+ years mentioned">>
        ELSE IF contains_any(title_l, HIGH_TITLE_KEYWORDS)
        THEN <<"HIGH", "Strong junior keyword in title">>
        ELSE IF contains_any(title_l, LESS_TITLE_KEYWORDS)
        THEN <<"LESS", "Stealth junior keyword in title">>
        ELSE <<"LESS", "No strong signal (kept for review)">>

\* (bucket, reason)
bucket_job(title, location, description_text) ==
    LET title_l == Lower(title)
        y_min   == extract_years(description_text)[1]
    IN  IF contains_any(title_l, SENIOR_EXCLUDE_KEYWORDS)
        THEN <<"EXCLUDE", "Senior keyword in title">>
        ELSE IF ~is_uk(location)
        THEN <<"IGNORE", "Not UK location">>
        ELSE IF y_min # None /\ y_min >= 50
        THEN <<"EXCLUDE", "5+ years mentioned">>
        ELSE IF contains_any(title_l, HIGH_TITLE_KEYWORDS)
        THEN <<"HIGH", "Strong junior keyword in title">>
        ELSE IF contains_any(title_l, LESS_TITLE_KEYWORDS)
        THEN <<"LESS", "Stealth junior keyword in title">>
        ELSE <<"LESS", "No strong signal (kept for review)">>

(***************************************************************************)
(* HTTP and the platform adapters                                          *)
(***************************************************************************)

\* An HTTP response is [status |-> n, json |-> body]; a body that is not
\* JSON has no json field.  raise_for_status() and r.json(): whether
\* receiving r raises.
Raises(r) == r.status >= 400 \/ "json" \notin DOMAIN r

\* a or b, for strings and lists (None counts as empty)
Or(a, b) == IF Truthy(a) THEN a ELSE b

\* a or b, for numbers that may be None
IntOr(a, b) == IF a # None /\ a # 0 THEN a ELSE b

PinpointJob(p) ==
    [ title       |-> Get(p, "title", <<>>),
      location    |-> Get(Get(p, "location", <<>>), "name", <<>>),
      department  |-> Get(Get(p, "department", <<>>), "name", <<>>),
      description |-> Get(p, "description", <<>>) ]

scrape_pinpoint(body) ==
    LET postings == Get(body, "data", <<>>)
    IN  [k \in 1..Len(postings) |-> PinpointJob(postings[k])]

\* A Greenhouse location is [obj |-> dict] or [str |-> text]:
\* isinstance(location, dict)
IsDict(v) == "obj" \in DOMAIN v

GreenhouseLocation(j) ==
    IF "location" \notin DOMAIN j THEN <<>>
    ELSE IF IsDict(j.location) THEN Get(j.location.obj, "name", <<>>)
    ELSE j.location.str

GreenhouseJob(j, dep_name) ==
    [ title       |-> Get(j, "title", <<>>),
      location    |-> GreenhouseLocation(j),
      department  |-> dep_name,
      description |-> Get(j, "content", <<>>) ]

GreenhouseJobs(js, dep_name) ==
    [k \in 1..Len(js) |-> GreenhouseJob(js[k], dep_name)]

RECURSIVE DepartmentsJobs(_)
DepartmentsJobs(deps) ==
    IF deps = <<>> THEN <<>>
    ELSE GreenhouseJobs(Get(Head(deps), "jobs", <<>>), Get(Head(deps), "name", <<>>))
           \o DepartmentsJobs(Tail(deps))

\* scrape_greenhouse with `elif "departments" in payload`
scrape_greenhouse_elif(body) ==
    IF "jobs" \in DOMAIN body THEN GreenhouseJobs(body.jobs, <<>>)
    ELSE IF "departments" \in DOMAIN body THEN DepartmentsJobs(body.departments)
    ELSE <<>>

scrape_greenhouse(body) ==
    (IF "jobs" \in DOMAIN body THEN GreenhouseJobs(body.jobs, <<>>) ELSE <<>>)
      \o (IF "departments" \in DOMAIN body
          THEN DepartmentsJobs(body.departments) ELSE <<>>)

limit == 20

SafetyCeiling == 500

WorkdayJob(it) ==
    [ title       |-> Or(Get(it, "title", <<>>), Get(it, "jobPostingTitle", <<>>)),
      location    |-> Or(Get(it, "locationsText", <<>>),
                         Or(Get(it, "location", <<>>),
                            Get(it, "primaryLocation", <<>>))),
      department  |-> <<>>,
      description |-> <<>> ]

\* items = payload.get("jobPostings") or payload.get("items") or []
WorkdayItems(body) == Or(Get(body, "jobPostings", <<>>), Get(body, "items", <<>>))

\* total = payload.get("total") or payload.get("totalCount")
WorkdayTotal(body) == IntOr(Get(body, "total", None), Get(body, "totalCount", None))

\* the safety stop tested on the offset just requested, not on the next one
SafetyStopLate(next_offset) == next_offset - limit > SafetyCeiling

\* if offset > 500: break
SafetyStop(next_offset) == next_offset > SafetyCeiling

(***************************************************************************)
(* The orchestrator's pure parts                                           *)
(***************************************************************************)

\* The dispatch by employer type that sends every other type to Pinpoint
DispatchDefaultPinpoint(emp_type) ==
    IF emp_type = "greenhouse" THEN "greenhouse"
    ELSE IF emp_type = "workday" THEN "workday"
    ELSE "pinpoint"

\* if emp_type == "pinpoint" ... elif ... else: skip
Dispatch(emp_type) ==
    IF emp_type = "pinpoint" THEN "pinpoint"
    ELSE IF emp_type = "greenhouse" THEN "greenhouse"
    ELSE IF emp_type = "workday" THEN "workday"
    ELSE "skip"

\* the filter that drops EXCLUDE only
DroppedExcludeOnly(bucket) == bucket = "EXCLUDE"

\* if bucket in ("EXCLUDE", "IGNORE"): continue
Dropped(bucket) == bucket \in {"EXCLUDE", "IGNORE"}

MakeRow(emp_name, j) ==
    LET row[b \in Seq(STRING)] ==
          [ employer   |-> emp_name,
            title      |-> j.title,
            location   |-> j.location,
            department |-> j.department,
            bucket     |-> b[1],
            reason     |-> b[2] ]
    IN  row[bucket_job(j.title, j.location, j.description)]

\* if bucket in ("EXCLUDE", "IGNORE"): continue; otherwise the row is appended
Appended(r) == ~Dropped(r.bucket)

\* the loop over jobs that loses the row of the last posting
KeptRowsDropLast(emp_name, js) ==
    SelectSeq([k \in 1..(Len(js) - 1) |-> MakeRow(emp_name, js[k])], Appended)

\* for j in jobs: the rows appended for one employer
KeptRows(emp_name, js) ==
    SelectSeq([k \in 1..Len(js) |-> MakeRow(emp_name, js[k])], Appended)

\* The bucket column's values as text, for sorting
BucketText(b) ==
    CASE b = "EXCLUDE" -> <<"E","X","C","L","U","D","E">>
      [] b = "HIGH"    -> <<"H","I","G","H">>
      [] b = "IGNORE"  -> <<"I","G","N","O","R","E">>
      [] b = "LESS"    -> <<"L","E","S","S">>

\* the sort key without its first column: ["employer", "title"]
KeyLessNoBucket(a, b) ==
    IF a.employer # b.employer THEN StrLess(a.employer, b.employer)
    ELSE StrLess(a.title, b.title)

\* a sorts strictly before b by ["bucket", "employer", "title"], ascending
KeyLess(a, b) ==
    IF a.bucket # b.bucket THEN StrLess(BucketText(a.bucket), BucketText(b.bucket))
    ELSE IF a.employer # b.employer THEN StrLess(a.employer, b.employer)
    ELSE StrLess(a.title, b.title)

\* The place of row k of rs in the sorted frame: after the rows that sort
\* before it and after the equal rows that stood before it
Place(rs, k) ==
    1 + Cardinality({m \in 1..Len(rs) :
                       \/ KeyLess(rs[m], rs[k])
                       \/ ~KeyLess(rs[k], rs[m]) /\ m < k})

\* df.sort_values(["bucket", "employer", "title"]): a stable sort
sort_values(rs) ==
    LET arrange[place \in Seq(Nat)] ==
          [n \in 1..Len(rs) |-> rs[CHOOSE k \in 1..Len(rs) : place[k] = n]]
    IN  arrange[[k \in 1..Len(rs) |-> Place(rs, k)]]

\* sum(1 for r in rows if r['employer'] == emp_name)
CountEmployer(rs, emp_name) ==
    Cardinality({k \in 1..Len(rs) : rs[k].employer = emp_name})

(***************************************************************************)
(* The environment: employers.csv and what each site answers               *)
(***************************************************************************)

MaxEmployers == 2

MaxJobs == 1

MaxDepartments == 2

MaxTitleWords == 2

\* All sequences over S of length at most n
SeqsUpTo(S, n) == UNION {[1..m -> S] : m \in 0..n}

\* The JSON objects that hold key k with a value of V, or do not hold it
OptKey(k, V) == {<<>>} \cup {k :> v : v \in V}

HttpError == [status |-> 503]

NotJson == [status |-> 200]

Ok(body) == [status |-> 200, json |-> body]

PinpointUrl == "https://acme.pinpointhq.com"
GreenhouseUrl == "https://boards.greenhouse.io/beta"
GreenhouseAnyUrl == "https://boards.greenhouse.io/any"
WorkdayUrl == "https://acme.wd3.myworkdayjobs.com/Careers"
WorkdayAnyUrl == "https://any.wd1.myworkdayjobs.com/en-US/Jobs"

\* The rows of employers.csv the runs are drawn from.  Two employers share
\* a name; one has a type no adapter serves.
EmployerPool ==
    { [name |-> <<"A","c","m","e">>, type |-> "pinpoint",   url |-> PinpointUrl],
      [name |-> <<"B","e","t","a">>, type |-> "greenhouse", url |-> GreenhouseUrl],
      [name |-> <<"A","c","m","e">>, type |-> "workday",    url |-> WorkdayUrl],
      [name |-> <<"Z","e","d">>,  type |-> "lever",      url |-> "https://jobs.lever.co/zed"] }

PinGraduate ==
    [ title |-> <<"G","r","a","d","u","a","t","e"," ","A","n","a","l","y","s","t">>, location |-> [name |-> <<"L","o","n","d","o","n",","," ","U","K">>],
      department |-> [name |-> <<"F","i","n","a","n","c","e">>], description |-> <<>> ]
PinSenior ==
    [ title |-> <<"S","e","n","i","o","r"," ","E","n","g","i","n","e","e","r">>, location |-> [name |-> <<"L","o","n","d","o","n",","," ","U","K">>] ]
PinParis ==
    [ title |-> <<"D","a","t","a"," ","A","n","a","l","y","s","t">>, location |-> [name |-> <<"P","a","r","i","s">>],
      department |-> <<>>, description |-> <<"u","p"," ","t","o"," ","2"," ","y","e","a","r","s">> ]
PinYears ==
    [ title |-> <<"D","a","t","a"," ","A","n","a","l","y","s","t">>, location |-> [name |-> <<"L","e","e","d","s">>],
      description |-> <<"7","-","1","0"," ","y","e","a","r","s">> ]
PinPlain ==
    [ location |-> [name |-> <<"B","r","i","s","t","o","l">>], description |-> <<"3","-","5"," ","y","e","a","r","s">> ]

PinpointResponses(url) ==
    { HttpError, NotJson, Ok(<<>>),
      Ok([data |-> <<PinGraduate, PinSenior>>]),
      Ok([data |-> <<PinPlain, PinParis, PinGraduate>>]),
      Ok([data |-> <<PinYears, PinPlain>>]) }

GhGraduate ==
    [ title |-> <<"G","r","a","d","u","a","t","e"," ","A","n","a","l","y","s","t">>, location |-> [obj |-> [name |-> <<"L","o","n","d","o","n">>]],
      content |-> <<>> ]
GhAnalyst ==
    [ title |-> <<"D","a","t","a"," ","A","n","a","l","y","s","t">>, location |-> [str |-> <<"L","e","e","d","s",","," ","U","K">>] ]
GhBare == [ content |-> <<"5","+"," ","y","e","a","r","s">> ]

GhRawJobs == {GhGraduate, GhAnalyst, GhBare}

\* Departments with or without a name (possibly empty), with or without jobs
GhDepartments ==
    { n @@ js : n \in OptKey("name", {<<>>, <<"E","n","g">>}),
                js \in OptKey("jobs", SeqsUpTo({GhAnalyst}, MaxJobs)) }

GreenhouseResponses(url) ==
    IF url = GreenhouseAnyUrl
    THEN { Ok(js @@ ds) :
             js \in OptKey("jobs", SeqsUpTo(GhRawJobs, MaxJobs)),
             ds \in OptKey("departments", SeqsUpTo(GhDepartments, MaxDepartments)) }
    ELSE { HttpError, Ok(<<>>),
           Ok([jobs |-> <<GhGraduate, GhBare>>]),
           Ok([departments |-> << [name |-> <<"E","n","g">>, jobs |-> <<GhAnalyst>>] >>]),
           Ok([jobs |-> <<GhAnalyst>>,
               departments |-> << [name |-> <<"O","p","s">>, jobs |-> <<GhGraduate>>] >>]) }

WdGraduate ==
    [ title |-> <<"G","r","a","d","u","a","t","e"," ","T","r","a","i","n","e","e">>, locationsText |-> <<"L","e","e","d","s",","," ","U","K">> ]
WdOfficer ==
    [ jobPostingTitle |-> <<"R","i","s","k"," ","O","f","f","i","c","e","r">>, locationsText |-> <<>>,
      primaryLocation |-> <<"O","x","f","o","r","d">> ]
WdAbroad ==
    [ title |-> <<"I","n","t","e","r","n">>, location |-> <<"B","e","r","l","i","n">> ]

\* The page a Workday site holds at an offset
WorkdayPage(url, off) ==
    IF url = WorkdayAnyUrl
    THEN [k \in 1..limit |->
            CASE (off + k) % 3 = 0 -> WdGraduate
              [] (off + k) % 3 = 1 -> WdOfficer
              [] OTHER             -> WdAbroad]
    ELSE IF off = 0 THEN <<WdGraduate, WdAbroad>>
    ELSE IF off = limit THEN <<WdOfficer>>
    ELSE <<>>

WorkdayBodies(page, totals, counts) ==
    { jp @@ it @@ t @@ c :
        jp \in OptKey("jobPostings", {<<>>, page}),
        it \in OptKey("items", {<<>>, page}),
        t \in OptKey("total", totals),
        c \in OptKey("totalCount", counts) }

\* What a Workday site may answer to the request at an offset
WorkdayResponses(url, off) ==
    {HttpError, NotJson} \cup
    { Ok(b) : b \in
        IF url = WorkdayAnyUrl
        THEN WorkdayBodies(WorkdayPage(url, off),
                           {0, limit, off + limit, 2 * SafetyCeiling},
                           {0, 2 * limit})
        ELSE { [jobPostings |-> WorkdayPage(url, off)],
               [items |-> WorkdayPage(url, off), totalCount |-> 2 * limit] } }

(***************************************************************************)
(* main                                                                    *)
(***************************************************************************)

Emp == employers[i]

Line(kind, emp_name, n) == [kind |-> kind, employer |-> emp_name, n |-> n]

Did(kind, adapter, js) == [kind |-> kind, adapter |-> adapter, jobs |-> js]

\* An adapter call raises: control reaches `except Exception`
AdapterRaise(adapter, r) ==
    /\ pc' = "raised"
    /\ response' = r
    /\ outcome' = Append(outcome, Did("raised", adapter, <<>>))
    /\ UNCHANGED jobs

\* An adapter call returns js, which main binds to `jobs`
AdapterReturn(adapter, r, js) ==
    /\ pc' = "returned"
    /\ response' = r
    /\ jobs' = js
    /\ outcome' = Append(outcome, Did("returned", adapter, js))

\* else: print("Skipping ..."); continue
Skip ==
    /\ pc = "loop"
    /\ i <= Len(employers)
    /\ Dispatch(Emp.type) = "skip"
    /\ log' = Append(log, Line("skip", Emp.name, 0))
    /\ outcome' = Append(outcome, Did("skipped", "none", <<>>))
    /\ i' = i + 1
    /\ UNCHANGED <<employers, pc, jobs, rows, output, response>>
    /\ UNCHANGED <<workdayVars, bucketVars>>

\* jobs = scrape_pinpoint(emp_url)
CallPinpoint ==
    /\ pc = "loop"
    /\ i <= Len(employers)
    /\ Dispatch(Emp.type) = "pinpoint"
    /\ \E r \in PinpointResponses(Emp.url) :
         IF Raises(r) THEN AdapterRaise("pinpoint", r)
         ELSE AdapterReturn("pinpoint", r, scrape_pinpoint(r.json))
    /\ UNCHANGED <<employers, i, rows, output, log>>
    /\ UNCHANGED <<workdayVars, bucketVars>>

\* jobs = scrape_greenhouse(emp_url)
CallGreenhouse ==
    /\ pc = "loop"
    /\ i <= Len(employers)
    /\ Dispatch(Emp.type) = "greenhouse"
    /\ \E r \in GreenhouseResponses(Emp.url) :
         IF Raises(r) THEN AdapterRaise("greenhouse", r)
         ELSE AdapterReturn("greenhouse", r, scrape_greenhouse(r.json))
    /\ UNCHANGED <<employers, i, rows, output, log>>
    /\ UNCHANGED <<workdayVars, bucketVars>>

\* jobs = scrape_workday(emp_url): entry, up to the first `while True`
CallWorkday ==
    /\ pc = "loop"
    /\ i <= Len(employers)
    /\ Dispatch(Emp.type) = "workday"
    /\ pc' = "workday"
    /\ site' = Emp.url
    /\ offset' = 0
    /\ all_jobs' = <<>>
    /\ requests' = <<>>
    /\ UNCHANGED <<employers, i, jobs, rows, output, log, outcome, response>>
    /\ UNCHANGED bucketVars

\* A failure handling that returns the pages fetched so far
WorkdayFailureReturnsPartial(r) ==
    /\ AdapterReturn("workday", r, all_jobs)
    /\ UNCHANGED <<offset, all_jobs>>

\* A page request fails: scrape_workday raises and all_jobs is lost
WorkdayFailure(r) ==
    /\ AdapterRaise("workday", r)
    /\ UNCHANGED <<offset, all_jobs>>

\* One iteration of `while True` on a page that was received
WorkdayIteration(r) ==
    LET items       == WorkdayItems(r.json)
        new_jobs    == all_jobs \o [k \in 1..Len(items) |-> WorkdayJob(items[k])]
        next_offset == offset + limit
        total       == WorkdayTotal(r.json)
    IN  IF ~Truthy(items)
        THEN /\ AdapterReturn("workday", r, all_jobs)
             /\ UNCHANGED <<offset, all_jobs>>
        ELSE /\ all_jobs' = new_jobs
             /\ offset' = next_offset
             /\ IF \/ total # None /\ next_offset >= total
                   \/ SafetyStop(next_offset)
                THEN AdapterReturn("workday", r, new_jobs)
                ELSE /\ pc' = "workday"
                     /\ response' = r
                     /\ UNCHANGED <<jobs, outcome>>

\* The body of `while True`: one POST and what follows it
WorkdayRequest ==
    /\ pc = "workday"
    /\ requests' = Append(requests, offset)
    /\ \E r \in WorkdayResponses(site, offset) :
         IF Raises(r) THEN WorkdayFailure(r) ELSE WorkdayIteration(r)
    /\ UNCHANGED <<employers, i, rows, output, log, site>>
    /\ UNCHANGED bucketVars

\* for j in jobs: ...; print(kept)
Classify ==
    /\ pc = "returned"
    /\ rows' = rows \o KeptRows(Emp.name, jobs)
    /\ log' = Append(log, Line("kept", Emp.name, CountEmployer(rows', Emp.name)))
    /\ i' = i + 1
    /\ pc' = "loop"
    /\ response' = <<>>
    /\ UNCHANGED <<employers, jobs, output, outcome>>
    /\ UNCHANGED <<workdayVars, bucketVars>>

\* The handler that lets the exception end the run
ExceptPropagates ==
    /\ pc = "raised"
    /\ pc' = "aborted"
    /\ response' = <<>>
    /\ UNCHANGED <<employers, i, jobs, rows, output, log, outcome>>
    /\ UNCHANGED <<workdayVars, bucketVars>>

\* except Exception as e: print(ERROR)
Except ==
    /\ pc = "raised"
    /\ log' = Append(log, Line("error", Emp.name, 0))
    /\ i' = i + 1
    /\ pc' = "loop"
    /\ response' = <<>>
    /\ UNCHANGED <<employers, jobs, rows, output, outcome>>
    /\ UNCHANGED <<workdayVars, bucketVars>>

\* After the loop: sort, write jobs_output.csv
Write ==
    /\ pc = "loop"
    /\ i > Len(employers)
    /\ output' = sort_values(rows)
    /\ log' = Append(log, Line("wrote", <<>>, Len(rows)))
    /\ pc' = "done"
    /\ UNCHANGED <<employers, i, jobs, rows, outcome, response>>
    /\ UNCHANGED <<workdayVars, bucketVars>>

Idle ==
    /\ jobs = <<>> /\ rows = <<>> /\ output = <<>> /\ log = <<>>
    /\ site = "" /\ offset = 0 /\ all_jobs = <<>> /\ requests = <<>>
    /\ response = <<>> /\ outcome = <<>> /\ args = <<>> /\ result = <<>>

Init ==
    /\ employers \in SeqsUpTo(EmployerPool, MaxEmployers)
    /\ i = 1
    /\ pc = "loop"
    /\ Idle

Next ==
    \/ Skip
    \/ CallPinpoint
    \/ CallGreenhouse
    \/ CallWorkday
    \/ WorkdayRequest
    \/ Classify
    \/ Except
    \/ Write

Spec == Init /\ [][Next]_vars

\* main runs to its end: a step that can be taken is taken
FairSpec == Spec /\ WF_vars(Next)

(***************************************************************************)
(* scrape_workday against a site that may answer anything                  *)
(***************************************************************************)

InitWorkday ==
    /\ employers = << [name |-> <<"A","n","y">>, type |-> "workday", url |-> WorkdayAnyUrl] >>
    /\ i = 1
    /\ pc = "loop"
    /\ Idle

NextWorkday == CallWorkday \/ WorkdayRequest

SpecWorkday == InitWorkday /\ [][NextWorkday]_vars

(***************************************************************************)
(* scrape_greenhouse against every payload shape                           *)
(***************************************************************************)

InitGreenhouse ==
    /\ employers = << [name |-> <<"A","n","y">>, type |-> "greenhouse", url |-> GreenhouseAnyUrl] >>
    /\ i = 1
    /\ pc = "loop"
    /\ Idle

NextGreenhouse == CallGreenhouse

SpecGreenhouse == InitGreenhouse /\ [][NextGreenhouse]_vars

(***************************************************************************)
(* bucket_job over titles, locations and descriptions                      *)
(***************************************************************************)

TitleWords ==
    { <<"S","e","n","i","o","r">>, <<"G","r","a","d","u","a","t","e">>, <<"A","n","a","l","y","s","t">>, <<"E","n","g","i","n","e","e","r">>, <<"S","T","A","F","F">>, <<"I","n","t","e","r","n">> }

RECURSIVE JoinWords(_)
JoinWords(ws) ==
    IF ws = <<>> THEN <<>>
    ELSE IF Len(ws) = 1 THEN ws[1]
    ELSE ws[1] \o <<" ">> \o JoinWords(Tail(ws))

Titles == {JoinWords(ws) : ws \in SeqsUpTo(TitleWords, MaxTitleWords)}

Locations == { <<"L","o","n","d","o","n",","," ","U","K">>, <<"P","a","r","i","s">>, <<>>, <<" "," ","L","e","e","d","s"," ">> }

Descriptions ==
    { <<>>, <<"5","+"," ","y","e","a","r","s">>, <<"3","-","5"," ","y","e","a","r","s"," ","e","x","p","e","r","i","e","n","c","e">>, <<"u","p"," ","t","o"," ","5"," ","y","e","a","r","s">>,
      <<"7","-","1","0"," ","Y","e","a","r","s">>, <<"4",".","5"," ","t","o"," ","6"," ","y","e","a","r","s">>, <<"1","0"," ","y","e","a","r","s">> }

InitBucket ==
    /\ args \in [title : Titles, location : Locations, description_text : Descriptions]
    /\ employers = <<>>
    /\ i = 1
    /\ pc = "bucket_job"
    /\ jobs = <<>> /\ rows = <<>> /\ output = <<>> /\ log = <<>>
    /\ site = "" /\ offset = 0 /\ all_jobs = <<>> /\ requests = <<>>
    /\ response = <<>> /\ outcome = <<>> /\ result = <<>>

\* bucket, reason = bucket_job(title, location, description)
ApplyBucket ==
    /\ pc = "bucket_job"
    /\ result' = bucket_job(args.title, args.location, args.description_text)
    /\ pc' = "applied"
    /\ UNCHANGED <<mainVars, workdayVars, response, args>>

NextBucket == ApplyBucket

SpecBucket == InitBucket /\ [][NextBucket]_vars

(***************************************************************************)
(* Properties                                                              *)
(***************************************************************************)

Range(s) == {s[k] : k \in 1..Len(s)}

Count(s, x) == Cardinality({k \in 1..Len(s) : s[k] = x})

Kept == {"HIGH", "LESS"}

BucketOf(j) == bucket_job(j.title, j.location, j.description)[1]

\* The jobs every adapter call so far returned, over all employers
ReturnedJobs == UNION {Range(outcome[e].jobs) : e \in 1..Len(outcome)}

\* C1: at every point of the run and in the written file, every row of the
\* output collection has bucket HIGH or LESS; none has EXCLUDE or IGNORE.
C1_NoDroppedBucketInOutput ==
    /\ \A k \in 1..Len(rows) : rows[k].bucket \in Kept
    /\ \A k \in 1..Len(output) : output[k].bucket \in Kept

\* The file is written with rows in it after adapters returned a posting
\* classified EXCLUDE and one classified IGNORE.
C1_Witness ==
    /\ pc = "done"
    /\ output # <<>>
    /\ \E j \in ReturnedJobs : BucketOf(j) = "EXCLUDE"
    /\ \E j \in ReturnedJobs : BucketOf(j) = "IGNORE"

\* A step in which an adapter call receives a response that makes it raise
AdapterCallRaises ==
    /\ response' # response
    /\ response' # <<>>
    /\ Raises(response')

\* C2: when the adapter call for one employer raises, that employer adds no
\* row and the rows collected so far stay as they are, the loop goes on to
\* the next employer, every employer of the list is processed, and the run
\* reaches the writing of the output.
C2_FaultIsolation ==
    /\ [][AdapterCallRaises => (pc' = "raised" /\ rows' = rows)]_vars
    /\ [][pc = "raised" => (rows' = rows /\ i' = i + 1 /\ pc' = "loop")]_vars
    /\ [](pc = "done" => Len(outcome) = Len(employers))
    /\ [](pc = "raised" => <>(pc = "done"))

\* The first employer's adapter raised, the second's returned, and the
\* written output holds rows.
C2_Witness ==
    /\ pc = "done"
    /\ Len(outcome) = 2
    /\ outcome[1].kind = "raised"
    /\ outcome[2].kind = "returned"
    /\ output # <<>>

\* C3: in one call of scrape_workday the requests are issued at offsets
\* 0, 20, 40, ... in this order, none at an offset above 500, so at most 26
\* of them; the loop cannot go on for ever, whatever the site answers.
C3_PaginationBounded ==
    /\ \A k \in 1..Len(requests) : requests[k] = 20 * (k - 1) /\ requests[k] <= 500
    /\ Len(requests) <= 26
    /\ pc = "workday" => (offset = 20 * Len(requests) /\ offset <= 500)

\* A call that issued 26 requests, the last at offset 500, and returned.
C3_Witness ==
    /\ pc = "returned"
    /\ Len(requests) = 26
    /\ requests[26] = 500

\* The keys of a payload that report a total
TotalKeys(body) == {"total", "totalCount"} \cap DOMAIN body

\* C5: when a response with a non-empty page reports a total (under total or
\* totalCount, any integer >= 0) and the offset advanced by 20 has reached
\* it, no further request is issued.
C5_TotalReachedStops ==
    (/\ pc \in {"workday", "returned"}
     /\ response # <<>>
     /\ ~Raises(response)
     /\ \E key \in {"jobPostings", "items"} \cap DOMAIN response.json :
           response.json[key] # <<>>
     /\ TotalKeys(response.json) # {}
     /\ \A key \in TotalKeys(response.json) :
           response.json[key] >= 0 /\ offset >= response.json[key])
    => pc # "workday"

\* C6: a failure on any page of scrape_workday, the first or a later one,
\* aborts the adapter call: the call raises, main's jobs receives nothing
\* of the pages fetched before, and no row is added for the employer while
\* the call runs or when the failure is handled.
C6_WorkdayFailureAborts ==
    /\ [][pc = "workday" =>
            /\ rows' = rows
            /\ (response' # <<>> /\ Raises(response'))
                  => (pc' = "raised" /\ jobs' = jobs)]_vars
    /\ [][pc = "raised" => rows' = rows]_vars

\* A Workday call that failed on its third page, after two pages of
\* postings.
C6_Witness ==
    /\ pc = "raised"
    /\ Dispatch(employers[i].type) = "workday"
    /\ Len(requests) = 3
    /\ Len(all_jobs) >= 2

\* The row main builds from posting j of employer e, when it keeps it
RowOf(e, j) ==
    LET classified == bucket_job(j.title, j.location, j.description)
    IN  [ employer   |-> employers[e].name,
          title      |-> j.title,
          location   |-> j.location,
          department |-> j.department,
          bucket     |-> classified[1],
          reason     |-> classified[2] ]

\* The postings successful adapter calls returned, each with its employer's
\* place in the list, its place in the adapter's result, and its row
ReturnedRows ==
    UNION { { <<e, k, RowOf(e, outcome[e].jobs[k])>> : k \in 1..Len(outcome[e].jobs) } :
              e \in {d \in 1..Len(outcome) : outcome[d].kind = "returned"} }

\* C7: the written output holds one row for each posting that a successful
\* adapter call returned and that was classified HIGH or LESS, with the
\* employer's name, the bucket and the reason, and no other row.
C7_OutputExactlySurvivors ==
    pc = "done" =>
        LET surviving == {t \in ReturnedRows : t[3].bucket \in Kept}
        IN  \A r \in Range(output) \cup {t[3] : t \in ReturnedRows} :
               Count(output, r) = Cardinality({t \in surviving : t[3] = r})

\* One Pinpoint employer returned Graduate Analyst (HIGH) and Senior
\* Engineer (EXCLUDE); the output is the one HIGH row.
C7_Witness ==
    /\ pc = "done"
    /\ Len(employers) = 1
    /\ outcome[1].adapter = "pinpoint"
    /\ Len(outcome[1].jobs) = 2
    /\ \E j \in ReturnedJobs : BucketOf(j) = "EXCLUDE"
    /\ Len(output) = 1
    /\ output[1].bucket = "HIGH"
    /\ output[1].title = <<"G","r","a","d","u","a","t","e"," ","A","n","a","l","y","s","t">>

\* a comes no later than b by (bucket, employer, title)
InOrder(a, b) ==
    \/ StrLess(BucketText(a.bucket), BucketText(b.bucket))
    \/ /\ a.bucket = b.bucket
       /\ \/ StrLess(a.employer, b.employer)
          \/ a.employer = b.employer /\ ~StrLess(b.title, a.title)

\* C8: the written output is a permutation of the collected rows, in
\* ascending order of (bucket, employer, title); every HIGH row comes
\* before every LESS row.
C8_OutputSorted ==
    pc = "done" =>
        /\ Len(output) = Len(rows)
        /\ \A r \in Range(rows) \cup Range(output) : Count(output, r) = Count(rows, r)
        /\ \A a, b \in 1..Len(output) : a < b => InOrder(output[a], output[b])
        /\ \A a, b \in 1..Len(output) :
             (output[a].bucket = "HIGH" /\ output[b].bucket = "LESS") => a < b

\* An output with HIGH and LESS rows of two employers that is not in the
\* order of collection.
C8_Witness ==
    /\ pc = "done"
    /\ output # rows
    /\ \E a, b \in 1..Len(output) :
         /\ output[a].bucket = "HIGH" /\ output[b].bucket = "LESS"
         /\ output[a].employer # output[b].employer

GhTop(body) == IF "jobs" \in DOMAIN body THEN body.jobs ELSE <<>>

GhDeps(body) == IF "departments" \in DOMAIN body THEN body.departments ELSE <<>>

GhDepName(d) == IF "name" \in DOMAIN d THEN d.name ELSE <<>>

GhDepJobs(d) == IF "jobs" \in DOMAIN d THEN d.jobs ELSE <<>>

\* How often posting q is due in the result for payload body
GhDue(body, q) ==
    LET top == GhTop(body)
        n[k \in 0..Len(GhDeps(body))] ==
          IF k = 0 THEN 0
          ELSE LET d == GhDeps(body)[k]
               IN  n[k - 1] + Cardinality({m \in 1..Len(GhDepJobs(d)) :
                                  GreenhouseJob(GhDepJobs(d)[m], GhDepName(d)) = q})
    IN  Cardinality({m \in 1..Len(top) : GreenhouseJob(top[m], <<>>) = q})
          + n[Len(GhDeps(body))]

GhAllDue(body) ==
    {GreenhouseJob(GhTop(body)[m], <<>>) : m \in 1..Len(GhTop(body))}
      \cup UNION { {GreenhouseJob(GhDepJobs(GhDeps(body)[k])[m], GhDepName(GhDeps(body)[k])) :
                      m \in 1..Len(GhDepJobs(GhDeps(body)[k]))} :
                   k \in 1..Len(GhDeps(body)) }

\* C9: scrape_greenhouse returns every job under `jobs` with department ""
\* and every job under each entry of `departments` with that entry's name,
\* each once, and nothing else; with only `departments`, a posting has
\* department "" only if its department's name is empty.
C9_GreenhouseUnion ==
    (pc = "returned" /\ outcome[Len(outcome)].adapter = "greenhouse") =>
        LET body == response.json
        IN  /\ \A q \in Range(jobs) \cup GhAllDue(body) : Count(jobs, q) = GhDue(body, q)
            /\ "jobs" \notin DOMAIN body =>
                 \A k \in 1..Len(jobs) :
                    jobs[k].department = <<>> =>
                       \E d \in Range(GhDeps(body)) :
                          GhDepName(d) = <<>> /\ GhDepJobs(d) # <<>>

\* A payload with jobs under `jobs` and under a named department.
C9_Witness ==
    /\ pc = "returned"
    /\ outcome[Len(outcome)].adapter = "greenhouse"
    /\ GhTop(response.json) # <<>>
    /\ \E d \in Range(GhDeps(response.json)) : GhDepName(d) # <<>> /\ GhDepJobs(d) # <<>>
    /\ \E k \in 1..Len(jobs) : jobs[k].department # <<>>
    /\ \E k \in 1..Len(jobs) : jobs[k].department = <<>>

Served == {"pinpoint", "greenhouse", "workday"}

\* C10: an employer whose type is not pinpoint, greenhouse or workday is
\* skipped: no adapter is called (no request, no response), no row is
\* added, a skip notice and no error is printed, and the loop goes on to
\* the next employer.
C10_UnsupportedTypeSkipped ==
    [][(pc = "loop" /\ i <= Len(employers) /\ employers[i].type \notin Served) =>
          /\ response' = response
          /\ requests' = requests
          /\ rows' = rows
          /\ log' = Append(log, Line("skip", employers[i].name, 0))
          /\ i' = i + 1
          /\ pc' = "loop"]_vars

\* An employer of an unserved type was passed over and the employer after
\* it was processed by its adapter.
C10_Witness ==
    /\ pc = "done"
    /\ Len(employers) = 2
    /\ employers[1].type \notin Served
    /\ log[1].kind = "skip"
    /\ outcome[2].kind = "returned"
    /\ output # <<>>

\* C4: bucket_job returns the outcome of the first rule that applies:
\* (1) senior keyword in title -> EXCLUDE, (2) location not UK -> IGNORE,
\* (3) minimum years >= 5 -> EXCLUDE, (4) strong junior keyword -> HIGH,
\* (5) weaker junior keyword -> LESS, (6) otherwise LESS.
C4_DecisionList ==
    pc = "applied" =>
        LET senior == contains_any(args.title, SENIOR_EXCLUDE_KEYWORDS)
            uk     == is_uk(args.location)
            y_min  == extract_years(args.description_text)[1]
            five   == y_min # None /\ y_min >= 50
            high   == contains_any(args.title, HIGH_TITLE_KEYWORDS)
            less   == contains_any(args.title, LESS_TITLE_KEYWORDS)
        IN  /\ senior => result = <<"EXCLUDE", "Senior keyword in title">>
            /\ (~senior /\ ~uk) => result = <<"IGNORE", "Not UK location">>
            /\ (~senior /\ uk /\ five) => result = <<"EXCLUDE", "5+ years mentioned">>
            /\ (~senior /\ uk /\ ~five /\ high)
                 => result = <<"HIGH", "Strong junior keyword in title">>
            /\ (~senior /\ uk /\ ~five /\ ~high /\ less)
                 => result = <<"LESS", "Stealth junior keyword in title">>
            /\ (~senior /\ uk /\ ~five /\ ~high /\ ~less)
                 => result = <<"LESS", "No strong signal (kept for review)">>

\* A senior title with a junior keyword too, abroad, with 7-10 years asked:
\* rule 1 decides.
C4_Witness ==
    /\ pc = "applied"
    /\ contains_any(args.title, SENIOR_EXCLUDE_KEYWORDS)
    /\ contains_any(args.title, HIGH_TITLE_KEYWORDS)
    /\ ~is_uk(args.location)
    /\ extract_years(args.description_text)[1] >= 50
    /\ result[1] = "EXCLUDE"


====
